---- MODULE Spec2Model ----
(***************************************************************************)
(* bq-proxy: an HTTP gateway that forwards newline-delimited JSON rows to  *)
(* BigQuery writers cached per destination.                                *)
(*                                                                         *)
(* The model follows src/unnamed/part_000 (the httpHandler) and            *)
(* src/main.go (main and the signal goroutine).  The bigquery.Writer       *)
(* (Connect, Add, Close), the operating system (signals) and the clock of  *)
(* http.TimeoutHandler are the environment: their outcomes are chosen      *)
(* nondeterministically.                                                   *)
(*                                                                         *)
(* Text is a sequence of tokens.  In a path every token is one character.  *)
(* In a body a token is the newline character or one complete JSON text    *)
(* (an object, null, an array) or the text not-json; a line made of two    *)
(* such texts is not a JSON value, which is what encoding/json says of it. *)
(***************************************************************************)
EXTENDS Integers, Sequences, FiniteSets, TLC

(* ------------------------------ bounds -------------------------------- *)

NReq == 2

MaxBodyLen == 4

MaxPathLen == 6

MaxSignals == 2

(* main.go:114  sigCh := make(chan os.Signal, 10) *)
SigChCap == 10

Reqs == 1..NReq

(* ------------------------------ tokens -------------------------------- *)

NL == "\n"

OA == "{\"a\":1}"

OA2 == "{\"a\":2}"

OB == "{\"b\":2}"

NUL == "null"

ARR == "[1]"

BAD == "not-json"

ObjectTokens == {OA, OA2, OB}

BodyAlphabet == {OA, OB, NUL, ARR, BAD, NL}

PathAlphabet == {"/", "a"}

SeqsUpTo(S, n) == UNION {[1..k -> S] : k \in 0..n}

(* the body of the specification's example: two objects, not-json, newline *)
ExampleBody == <<OA, NL, OA2, NL, BAD, NL>>

BatchBodies == SeqsUpTo(BodyAlphabet, MaxBodyLen) \cup {ExampleBody}

BatchPaths == SeqsUpTo(PathAlphabet, MaxPathLen)

ConcBodies == {<<OA, NL, BAD>>}

ConcPaths ==
  { <<"/", "a", "/", "b", "/", "c">>,
    <<"/", "a", "|", "b", "/", "c", "/", "d">>,
    <<"/", "a", "/", "b", "|", "c", "/", "d">> }

(* --------------------------- pure functions --------------------------- *)

(* strings.Split(s, sep) for a one-token separator: the pieces between    *)
(* the separators, one more piece than there are separators.              *)
RECURSIVE SplitFrom(_, _, _, _)
SplitFrom(s, sep, k, cur) ==
  IF k > Len(s) THEN <<cur>>
  ELSE IF s[k] = sep THEN <<cur>> \o SplitFrom(s, sep, k + 1, <<>>)
  ELSE SplitFrom(s, sep, k + 1, Append(cur, s[k]))

(* a split that leaves out the empty piece after a final separator *)
SplitNoTrailingEmpty(s, sep) ==
  IF Len(s) > 0 /\ s[Len(s)] = sep
    THEN SubSeq(SplitFrom(s, sep, 1, <<>>), 1, Len(SplitFrom(s, sep, 1, <<>>)) - 1)
    ELSE SplitFrom(s, sep, 1, <<>>)

(* a split that yields no piece at all for the empty text *)
SplitEmptyToNone(s, sep) == IF s = <<>> THEN <<>> ELSE SplitFrom(s, sep, 1, <<>>)

(* strings.Split(s, sep) *)
Split(s, sep) == SplitFrom(s, sep, 1, <<>>)

(* fmt.Sprintf("%s|%s|%s", project, database, table) *)
CacheKey(project, database, table) ==
  project \o <<"|">> \o database \o <<"|">> \o table

(* the JSON object a token denotes, as a set of <<key, value>> pairs *)
ObjectOf(tok) ==
  CASE tok = OA -> {<<"a", 1>>}
    [] tok = OA2 -> {<<"a", 2>>}
    [] tok = OB -> {<<"b", 2>>}
    [] OTHER -> {}

KeysOf(kv) == {p[1] : p \in kv}

(* the nil map of   var row map[string]interface{} *)
NilRow == [id |-> 0, kv |-> {}]

(* json.Unmarshal([]byte(line), &row) with row a map[string]interface{}:  *)
(* invalid text is a syntax error and leaves row alone; null sets row to  *)
(* nil without an error; an object is stored into the map row already     *)
(* holds (a new map, numbered fresh, only when row is nil), keeping the   *)
(* entries of keys the object does not name; any other value is a type    *)
(* error and leaves row alone.                                            *)
Unmarshal(line, row, fresh) ==
  IF Len(line) # 1 \/ line[1] = BAD \/ line[1] = NL
    THEN [err |-> "syntax", row |-> row]
  ELSE IF line[1] = NUL
    THEN [err |-> "none", row |-> NilRow]
  ELSE IF line[1] \in ObjectTokens
    THEN [err |-> "none",
          row |-> [id |-> IF row.id = 0 THEN fresh ELSE row.id,
                   kv |-> {p \in row.kv : p[1] \notin KeysOf(ObjectOf(line[1]))}
                            \cup ObjectOf(line[1])]]
  ELSE [err |-> "type", row |-> row]

(* what writer.Add can return: nil, an error json.Marshal can encode, or  *)
(* an error value json.Marshal cannot encode                              *)
AddResults == {"ok", "rejected", "rejected-unencodable"}

(* json.Marshal(&response{Errors: errors}): the struct tags of response   *)
(* and writeError are not key:"value" pairs, so the fields are encoded    *)
(* under their Go names; the encoding fails when an error value cannot be *)
(* encoded.                                                               *)
Marshal(errs) ==
  IF \E k \in 1..Len(errs) : errs[k].Error = "rejected-unencodable"
    THEN [err |-> TRUE, Errors |-> <<>>]
    ELSE [err |-> FALSE, Errors |-> errs]

(* ------------------------------- state -------------------------------- *)

VARIABLES
  pc,         \* per request: "new", "resolve", "connect", "send", "done"
  path,       \* r.URL.Path
  body,       \* ServeHTTP's body
  readErr,    \* whether ioutil.ReadAll(r.Body) fails
  bodyRead,   \* whether ServeHTTP has read the body
  key,        \* getBigqueryWriter's key
  nw,         \* newBigqueryWriter's writer (0: none)
  wr,         \* serveBigquery's writer (0: none)
  lines,      \* serveBigquery's lines
  idx,        \* sendLines: how many lines the loop has gone through
  row,        \* sendLines' row
  errors,     \* sendLines' errors
  added,      \* per request: the calls of writer.Add, in order
  resp,       \* what the handler wrote to its ResponseWriter
  sent,       \* the status the client received (0: none yet)
  mu,         \* httpHandler.mu: 0, or the request that holds it
  writers,    \* httpHandler.writers: cache key -> writer
  handles,    \* every bigquery.Writer made so far
  lnOpen,     \* the listener is open
  sigCh,      \* signals waiting in sigCh
  notify,     \* signal.Notify is in effect for sigCh
  nsig,       \* signals sent to the process so far
  spc,        \* the signal goroutine: "wait", "lnclose", "close", "done"
  visited,    \* handler.Close: the cache keys its range loop has produced
  late,       \* cache keys inserted while handler.Close was ranging over the map
  doneClosed, \* close(done) has run
  proc        \* the process: "running", "exited", "killed", "crashed"

reqVars == <<pc, path, body, readErr, bodyRead, key, nw, wr, lines, idx, row, errors,
             added, resp, sent>>

regVars == <<mu, writers, handles>>

sigVars == <<lnOpen, sigCh, notify, nsig, spc, visited, late, doneClosed>>

vars == <<reqVars, regVars, sigVars, proc>>

NoResp == [status |-> 0, kind |-> "none", error |-> "", Errors |-> <<>>]

(* badRequest / internalError: a status and {"error": msg} *)
ErrorResp(status, msg) ==
  [status |-> status, kind |-> "error", error |-> msg, Errors |-> <<>>]

(* a variant of ok that answers 500 when the error list is not empty *)
OkRespFailsOnRowErrors(errs) ==
  IF errs = <<>>
    THEN [status |-> 200, kind |-> "errors", error |-> "", Errors |-> errs]
    ELSE [status |-> 500, kind |-> "error", error |-> "row errors", Errors |-> <<>>]

(* ok: status 200 and the encoded response *)
OkResp(errs) == [status |-> 200, kind |-> "errors", error |-> "", Errors |-> errs]

(* serveStatus writes nothing: net/http answers 200 with an empty body *)
StatusResp == [status |-> 200, kind |-> "empty", error |-> "", Errors |-> <<>>]

Init ==
  /\ pc = [r \in Reqs |-> "new"]
  /\ path = [r \in Reqs |-> <<>>]
  /\ body = [r \in Reqs |-> <<>>]
  /\ readErr = [r \in Reqs |-> FALSE]
  /\ bodyRead = [r \in Reqs |-> FALSE]
  /\ key = [r \in Reqs |-> <<>>]
  /\ nw = [r \in Reqs |-> 0]
  /\ wr = [r \in Reqs |-> 0]
  /\ lines = [r \in Reqs |-> <<>>]
  /\ idx = [r \in Reqs |-> 0]
  /\ row = [r \in Reqs |-> NilRow]
  /\ errors = [r \in Reqs |-> <<>>]
  /\ added = [r \in Reqs |-> <<>>]
  /\ resp = [r \in Reqs |-> NoResp]
  /\ sent = [r \in Reqs |-> 0]
  /\ mu = 0
  /\ writers = <<>>
  /\ handles = <<>>
  /\ lnOpen = TRUE
  /\ sigCh = 0
  /\ notify = TRUE
  /\ nsig = 0
  /\ spc = "wait"
  /\ visited = {}
  /\ late = {}
  /\ doneClosed = FALSE
  /\ proc = "running"

(* ----------------------------- the gateway ---------------------------- *)

(* the handler returns: http.TimeoutHandler passes its response on unless *)
(* the timeout response has been sent already                             *)
Return(r, response) ==
  /\ resp' = [resp EXCEPT ![r] = response]
  /\ sent' = [sent EXCEPT ![r] = IF @ = 0 THEN response.status ELSE @]
  /\ pc' = [pc EXCEPT ![r] = "done"]

(* http.TimeoutHandler(handler, time.Second*60, ""): the timer fires while *)
(* the handler is running; the client is answered 503 and the handler is  *)
(* left running                                                           *)
Timeout(r) ==
  /\ proc = "running"
  /\ pc[r] \notin {"new", "done"}
  /\ sent[r] = 0
  /\ sent' = [sent EXCEPT ![r] = 503]
  /\ UNCHANGED <<pc, path, body, readErr, bodyRead, key, nw, wr, lines, idx, row,
                 errors, added, resp>>
  /\ UNCHANGED <<regVars, sigVars, proc>>

Params(p) == Split(p, "/")

(* a variant of the path test without the test for empty segments *)
InvalidURISegmentCountOnly(p) == Len(Params(p)) # 4

(* len(params) != 4, or project, dataset or table is "" *)
InvalidURI(p) ==
  \/ Len(Params(p)) # 4
  \/ Params(p)[2] = <<>> \/ Params(p)[3] = <<>> \/ Params(p)[4] = <<>>

KeyOf(p) == CacheKey(Params(p)[2], Params(p)[3], Params(p)[4])

(* http.Serve accepts a connection while the listener is open and starts  *)
(* the handler: ServeHTTP, serveBigquery and getBigqueryWriter up to      *)
(* h.mu.Lock().  body is what ioutil.ReadAll returns, readErr whether it  *)
(* returns an error.                                                      *)
ServeHTTP(r, paths, bodies, readErrs) ==
  /\ proc = "running" /\ lnOpen
  /\ pc[r] = "new"
  /\ \A q \in Reqs : q < r => pc[q] # "new"
  /\ \E p \in paths :
       /\ path' = [path EXCEPT ![r] = p]
       /\ IF p = <<"/">>
            THEN /\ Return(r, StatusResp)
                 /\ UNCHANGED <<body, readErr, bodyRead, key>>
          ELSE IF InvalidURI(p)
            THEN /\ Return(r, ErrorResp(400, "invalid uri"))
                 /\ UNCHANGED <<body, readErr, bodyRead, key>>
          ELSE \E b \in bodies, e \in readErrs :
                 /\ bodyRead' = [bodyRead EXCEPT ![r] = TRUE]
                 /\ readErr' = [readErr EXCEPT ![r] = e]
                 /\ IF e
                      THEN /\ Return(r, ErrorResp(400, "read error"))
                           /\ UNCHANGED <<body, key>>
                      ELSE /\ body' = [body EXCEPT ![r] = b]
                           /\ key' = [key EXCEPT ![r] = KeyOf(p)]
                           /\ pc' = [pc EXCEPT ![r] = "resolve"]
                           /\ UNCHANGED <<resp, sent>>
  /\ UNCHANGED <<nw, wr, lines, idx, row, errors, added>>
  /\ UNCHANGED <<regVars, sigVars, proc>>

(* a variant of getBigqueryWriter that does not wait for the mutex *)
LockNoMutex(r) == TRUE

(* h.mu.Lock() returns only when no request holds the mutex *)
Lock(r) == mu = 0

(* serveBigquery after getBigqueryWriter returned writer w: split the body *)
(* and enter sendLines                                                    *)
EnterSendLines(r, w) ==
  /\ wr' = [wr EXCEPT ![r] = w]
  /\ lines' = [lines EXCEPT ![r] = Split(body[r], NL)]
  /\ idx' = [idx EXCEPT ![r] = 0]
  /\ row' = [row EXCEPT ![r] = NilRow]
  /\ errors' = [errors EXCEPT ![r] = <<>>]
  /\ pc' = [pc EXCEPT ![r] = "send"]

(* a variant of the cache hit that makes and connects a writer anyway *)
ResolveHitReconnects(r) ==
  /\ proc = "running"
  /\ pc[r] = "resolve"
  /\ Lock(r)
  /\ key[r] \in DOMAIN writers
  /\ mu' = r
  /\ handles' = Append(handles, [key |-> key[r], connected |-> FALSE,
                                 closed |-> FALSE])
  /\ nw' = [nw EXCEPT ![r] = Len(handles) + 1]
  /\ pc' = [pc EXCEPT ![r] = "connect"]
  /\ UNCHANGED <<path, body, readErr, bodyRead, key, wr, lines, idx, row, errors,
                 added, resp, sent>>
  /\ UNCHANGED <<writers, sigVars, proc>>

(* getBigqueryWriter, the key is cached: lock, look up, unlock, return *)
ResolveHit(r) ==
  /\ proc = "running"
  /\ pc[r] = "resolve"
  /\ Lock(r)
  /\ key[r] \in DOMAIN writers
  /\ EnterSendLines(r, writers[key[r]])
  /\ UNCHANGED <<path, body, readErr, bodyRead, key, nw, added, resp, sent>>
  /\ UNCHANGED <<regVars, sigVars, proc>>

(* getBigqueryWriter, the key is not cached: lock, look up, make a writer *)
(* and call its Connect, the mutex held                                   *)
ResolveMiss(r) ==
  /\ proc = "running"
  /\ pc[r] = "resolve"
  /\ Lock(r)
  /\ key[r] \notin DOMAIN writers
  /\ mu' = r
  /\ handles' = Append(handles, [key |-> key[r], connected |-> FALSE,
                                 closed |-> FALSE])
  /\ nw' = [nw EXCEPT ![r] = Len(handles) + 1]
  /\ pc' = [pc EXCEPT ![r] = "connect"]
  /\ UNCHANGED <<path, body, readErr, bodyRead, key, wr, lines, idx, row, errors,
                 added, resp, sent>>
  /\ UNCHANGED <<writers, sigVars, proc>>

(* h.writers[key] = writer *)
Register(ck, w) ==
  [k \in DOMAIN writers \cup {ck} |-> IF k = ck THEN w ELSE writers[k]]

(* a variant that caches the writer before it looks at the error *)
RegisteredAnyway(ck, w, failed) == Register(ck, w)

(* getBigqueryWriter after newBigqueryWriter returned: an error returns   *)
(* before the writer is cached                                            *)
Registered(ck, w, failed) == IF failed THEN writers ELSE Register(ck, w)

(* a variant that unlocks only on the return after a successful Connect *)
UnlockedOnSuccessOnly(r, failed) == IF failed THEN r ELSE 0

(* defer h.mu.Unlock(): the mutex is free after every return of           *)
(* getBigqueryWriter                                                      *)
Unlocked(r, failed) == 0

(* Connect returned nil: the writer is cached and returned.  handler.Close *)
(* ranges over the map without the mutex: an insertion during its loop is *)
(* produced by the loop or skipped, or the runtime ends the process with  *)
(* "concurrent map iteration and map write".                              *)
ConnectOk(r) ==
  /\ proc = "running"
  /\ pc[r] = "connect"
  /\ handles' = [handles EXCEPT ![nw[r]].connected = TRUE]
  /\ writers' = Registered(key[r], nw[r], FALSE)
  /\ mu' = Unlocked(r, FALSE)
  /\ late' = IF spc = "close" THEN late \cup {key[r]} ELSE late
  /\ EnterSendLines(r, nw[r])
  /\ UNCHANGED <<path, body, readErr, bodyRead, key, nw, added, resp, sent>>
  /\ UNCHANGED <<lnOpen, sigCh, notify, nsig, spc, visited, doneClosed, proc>>

MapRace(r) ==
  /\ proc = "running"
  /\ pc[r] = "connect"
  /\ spc = "close"
  /\ proc' = "crashed"
  /\ UNCHANGED <<reqVars, regVars, sigVars>>

(* Connect returned an error: nothing is cached, serveBigquery answers 500 *)
ConnectFail(r) ==
  /\ proc = "running"
  /\ pc[r] = "connect"
  /\ writers' = Registered(key[r], nw[r], TRUE)
  /\ mu' = Unlocked(r, TRUE)
  /\ Return(r, ErrorResp(500, "connect error"))
  /\ UNCHANGED <<path, body, readErr, bodyRead, key, nw, wr, lines, idx, row, errors,
                 added>>
  /\ UNCHANGED <<handles, sigVars, proc>>

(* a variant with the test of Add's error inverted *)
AddFailedInverted(res) == res = "ok"

(* if err := writer.Add(...); err != nil *)
AddFailed(res) == res # "ok"

(* one iteration of the loop of sendLines *)
SendLine(r) ==
  /\ proc = "running"
  /\ pc[r] = "send"
  /\ idx[r] < Len(lines[r])
  /\ LET u == Unmarshal(lines[r][idx[r] + 1], row[r], idx[r] + 1)
     IN  /\ row' = [row EXCEPT ![r] = u.row]
         /\ IF u.err # "none"
              THEN /\ errors' = [errors EXCEPT ![r] =
                                   Append(@, [Index |-> idx[r], Error |-> u.err])]
                   /\ UNCHANGED added
              ELSE \E res \in AddResults :
                     /\ added' = [added EXCEPT ![r] =
                                    Append(@, [Index |-> idx[r], row |-> u.row,
                                               writer |-> wr[r], result |-> res,
                                               closed |-> handles[wr[r]].closed,
                                               answered |-> sent[r]])]
                     /\ errors' = [errors EXCEPT ![r] =
                                     IF AddFailed(res)
                                       THEN Append(@, [Index |-> idx[r], Error |-> res])
                                       ELSE @]
  /\ idx' = [idx EXCEPT ![r] = @ + 1]
  /\ UNCHANGED <<pc, path, body, readErr, bodyRead, key, nw, wr, lines, resp, sent>>
  /\ UNCHANGED <<regVars, sigVars, proc>>

(* sendLines returned: serveBigquery encodes the response and answers *)
Respond(r) ==
  /\ proc = "running"
  /\ pc[r] = "send"
  /\ idx[r] = Len(lines[r])
  /\ IF Marshal(errors[r]).err
       THEN Return(r, ErrorResp(500, "marshal error"))
       ELSE Return(r, OkResp(Marshal(errors[r]).Errors))
  /\ UNCHANGED <<path, body, readErr, bodyRead, key, nw, wr, lines, idx, row, errors,
                 added>>
  /\ UNCHANGED <<regVars, sigVars, proc>>

(* ------------------------------ shutdown ------------------------------ *)

(* the operating system sends SIGINT or SIGTERM (at most max times):      *)
(* relayed to sigCh while signal.Notify is in effect (dropped when sigCh  *)
(* is full); after signal.Stop the default action ends the process        *)
Signal(max) ==
  /\ proc = "running"
  /\ nsig < max
  /\ nsig' = nsig + 1
  /\ IF notify
       THEN /\ sigCh' = IF sigCh < SigChCap THEN sigCh + 1 ELSE sigCh
            /\ UNCHANGED proc
       ELSE /\ proc' = "killed"
            /\ UNCHANGED sigCh
  /\ UNCHANGED <<reqVars, regVars>>
  /\ UNCHANGED <<lnOpen, notify, spc, visited, late, doneClosed>>

(* a variant that closes the writers before the listener *)
StagesWritersFirst == <<"close", "lnclose", "done">>

(* a variant whose goroutine waits for the next signal after handler.Close *)
StagesRepeating == <<"lnclose", "close", "wait">>

(* what the signal goroutine does after it received the signal, in order: *)
(* ln.Close(), handler.Close(), close(done)                               *)
Stages == <<"lnclose", "close", "done">>

StageAfter(st) == Stages[(CHOOSE k \in 1..2 : Stages[k] = st) + 1]

(* sig := <-sigCh; signal.Stop(sigCh); close(sigCh) *)
ReceiveSignal ==
  /\ proc = "running"
  /\ spc = "wait"
  /\ sigCh > 0
  /\ sigCh' = sigCh - 1
  /\ notify' = FALSE
  /\ spc' = Stages[1]
  /\ UNCHANGED <<reqVars, regVars, proc>>
  /\ UNCHANGED <<lnOpen, nsig, visited, late, doneClosed>>

(* ln.Close() *)
CloseListener ==
  /\ proc = "running"
  /\ spc = "lnclose"
  /\ lnOpen' = FALSE
  /\ spc' = StageAfter("lnclose")
  /\ doneClosed' = (spc' = "done")
  /\ UNCHANGED <<reqVars, regVars, proc>>
  /\ UNCHANGED <<sigCh, notify, nsig, visited, late>>

(* handler.Close: one iteration of   for _, writer := range h.writers *)
CloseWriter(k) ==
  /\ proc = "running"
  /\ spc = "close"
  /\ k \in DOMAIN writers
  /\ k \notin visited
  /\ handles' = [handles EXCEPT ![writers[k]].closed = TRUE]
  /\ visited' = visited \cup {k}
  /\ UNCHANGED <<reqVars, mu, writers, proc>>
  /\ UNCHANGED <<lnOpen, sigCh, notify, nsig, spc, late, doneClosed>>

(* handler.Close returns: its loop has produced every entry the map held  *)
(* when the loop began; entries inserted meanwhile may have been skipped  *)
CloseReturn ==
  /\ proc = "running"
  /\ spc = "close"
  /\ (DOMAIN writers) \ late \subseteq visited
  /\ spc' = StageAfter("close")
  /\ doneClosed' = (spc' = "done")
  /\ UNCHANGED <<reqVars, regVars, proc>>
  /\ UNCHANGED <<lnOpen, sigCh, notify, nsig, visited, late>>

(* main: http.Serve has returned, which it does once the listener is      *)
(* closed (an Accept error that is not the closing of the listener is     *)
(* left out); <-done; main returns and the process exits, the handlers    *)
(* still running with it                                                  *)
MainExitGuard == ~lnOpen /\ doneClosed

MainExit ==
  /\ proc = "running"
  /\ MainExitGuard
  /\ proc' = "exited"
  /\ UNCHANGED <<reqVars, regVars, sigVars>>

(* --------------------------- specifications --------------------------- *)

Handle(r) ==
  \/ ServeHTTP(r, ConcPaths, ConcBodies, {FALSE})
  \/ ResolveHit(r)
  \/ ResolveMiss(r)
  \/ ConnectOk(r)
  \/ MapRace(r)
  \/ ConnectFail(r)
  \/ SendLine(r)
  \/ Respond(r)

Shutdown ==
  \/ Signal(MaxSignals)
  \/ ReceiveSignal
  \/ CloseListener
  \/ \E k \in DOMAIN writers : CloseWriter(k)
  \/ CloseReturn
  \/ MainExit

(* the server: concurrent requests and the shutdown.  The timeout of a    *)
(* request touches nothing the requests share; it is part of SpecBatch.   *)
Next ==
  \/ \E r \in Reqs : Handle(r)
  \/ Shutdown

Spec == Init /\ [][Next]_vars

(* the scheduler lets a request that can go past h.mu.Lock() do so, and   *)
(* every call of Connect returns                                          *)
Fairness ==
  \A r \in Reqs :
    /\ WF_vars(ResolveHit(r) \/ ResolveMiss(r))
    /\ WF_vars(ConnectOk(r) \/ ConnectFail(r))

SpecLive == Init /\ [][Next]_vars /\ Fairness

(* one request, over every path and body within the bounds, and its      *)
(* timeout                                                                *)
NextBatch ==
  \/ ServeHTTP(1, BatchPaths, BatchBodies, BOOLEAN)
  \/ ResolveMiss(1)
  \/ ConnectOk(1)
  \/ ConnectFail(1)
  \/ SendLine(1)
  \/ Respond(1)
  \/ Timeout(1)

SpecBatch == Init /\ [][NextBatch]_vars

(* ------------------------------- claims ------------------------------- *)

HandleIds == 1..Len(handles)

(* the writers whose Connect succeeded for cache key k *)
ConnectedFor(k) == {h \in HandleIds : handles[h].key = k /\ handles[h].connected}

(* the requests to which getBigqueryWriter has returned a writer *)
Resolved == {r \in Reqs : wr[r] # 0}

(* C1: for every cache key at most one writer is ever connected, whatever *)
(* the interleaving of the resolves: the cached writer is that one, and   *)
(* all requests that resolved the key hold the same writer.               *)
C1_OneWriterPerKey ==
  /\ \A h \in HandleIds : Cardinality(ConnectedFor(handles[h].key)) <= 1
  /\ \A k \in DOMAIN writers : ConnectedFor(k) = {writers[k]}
  /\ \A r \in Resolved : ConnectedFor(key[r]) = {wr[r]}
  /\ \A r1, r2 \in Resolved : key[r1] = key[r2] => wr[r1] = wr[r2]

(* two requests for one key have both resolved it: the first connected    *)
(* the writer, the second found it cached                                 *)
C1_Witness ==
  \E r1, r2 \in Resolved :
    /\ r1 # r2
    /\ key[r1] = key[r2]
    /\ nw[r1] # 0 /\ nw[r2] = 0
    /\ wr[r1] = wr[r2]

(* C5: a Connect that fails answers 500 with the connection error, caches *)
(* nothing (the cache is unchanged, every cached writer is connected) and *)
(* submits no row; a later resolve of a key that is not cached makes a    *)
(* new writer and calls Connect again.                                    *)
C5_ConnectFailure ==
  [][\A r \in Reqs :
       /\ (pc[r] = "connect" /\ pc'[r] = "done") =>
            /\ resp'[r] = ErrorResp(500, "connect error")
            /\ writers' = writers
            /\ wr'[r] = 0 /\ added'[r] = <<>>
       /\ (pc[r] = "resolve" /\ pc'[r] # "resolve"
             /\ key[r] \notin DOMAIN writers) =>
            /\ pc'[r] = "connect"
            /\ Len(handles') = Len(handles) + 1
            /\ ~handles'[Len(handles')].connected
       /\ (pc[r] = "done" /\ resp[r].error = "connect error") =>
            /\ pc'[r] = "done" /\ added'[r] = <<>>
       /\ \A k \in DOMAIN writers' : handles'[writers'[k]].connected]_vars

(* a Connect for a key failed and answered 500, and a later request for   *)
(* the same key connected a new writer, which is the one cached           *)
C5_Witness ==
  \E r1, r2 \in Reqs :
    /\ pc[r1] = "done" /\ resp[r1].status = 500
    /\ nw[r1] < nw[r2]
    /\ wr[r2] = nw[r2]
    /\ key[r2] = key[r1]
    /\ writers[key[r2]] = nw[r2]

(* C6: no writer is closed while the listener is open *)
C6_ListenerClosedFirst ==
  \A h \in HandleIds : handles[h].closed => ~lnOpen

(* a writer has been closed by handler.Close *)
C6_Witness == \E h \in HandleIds : handles[h].closed

(* C7: when the process exits from main, done has been closed and every   *)
(* writer that was connected and cached has been closed.                  *)
C7_ExitAfterRelease ==
  proc = "exited" =>
    /\ doneClosed
    /\ \A k \in DOMAIN writers : handles[writers[k]].closed

(* the number of lines of a body: its newline characters, plus one *)
NumLines(b) == Cardinality({k \in 1..Len(b) : b[k] = NL}) + 1

(* the line is the text of one JSON object *)
IsObjectLine(line) == Len(line) = 1 /\ line[1] \in ObjectTokens

(* sendLines has returned to the serveBigquery of request r *)
SendLinesReturned(r) ==
  /\ wr[r] # 0
  /\ \/ pc[r] = "done"
     \/ pc[r] = "send" /\ idx[r] = Len(lines[r])

ErrorIndices(r) == {errors[r][k].Index : k \in 1..Len(errors[r])}

AcceptedIndices(r) ==
  {added[r][k].Index : k \in {j \in 1..Len(added[r]) : added[r][j].result = "ok"}}

(* C2: sendLines goes through all N lines of the body; the indices of its *)
(* error list are strictly ascending and lie in 0..N-1; an index is       *)
(* absent from the list exactly when its line is a JSON object and the    *)
(* writer's Add accepted it.                                              *)
C2_ErrorListExact ==
  \A r \in Reqs : SendLinesReturned(r) =>
    /\ idx[r] = NumLines(body[r])
    /\ \A k \in 1..Len(errors[r]) - 1 : errors[r][k].Index < errors[r][k + 1].Index
    /\ ErrorIndices(r) \subseteq 0..NumLines(body[r]) - 1
    /\ \A i \in 0..NumLines(body[r]) - 1 :
         i \notin ErrorIndices(r) <=>
           (IsObjectLine(lines[r][i + 1]) /\ i \in AcceptedIndices(r))

(* the path has four segments, the last three of them not empty: three    *)
(* slashes, no two of them adjacent, none at the end                      *)
ThreeSegmentPath(p) ==
  /\ Cardinality({k \in 1..Len(p) : p[k] = "/"}) = 3
  /\ \A k \in 1..Len(p) - 1 : ~(p[k] = "/" /\ p[k + 1] = "/")
  /\ p[Len(p)] # "/"

Unencodable(r) ==
  \E k \in 1..Len(errors[r]) : errors[r][k].Error = "rejected-unencodable"

(* C3: a request with a three-segment path, a readable body and a         *)
(* resolved writer is answered 200 with the error list of its rows,       *)
(* however many rows failed, unless the list cannot be encoded; 400 comes *)
(* only from a bad path or an unreadable body, 500 only from a failed     *)
(* Connect or a failed encoding.                                          *)
C3_RowErrorsKeepStatus ==
  \A r \in Reqs : pc[r] = "done" =>
    /\ resp[r].status \in {200, 400, 500}
    /\ (ThreeSegmentPath(path[r]) /\ ~readErr[r] /\ wr[r] # 0 /\ ~Unencodable(r)) =>
         /\ resp[r].status = 200
         /\ resp[r].kind = "errors"
         /\ resp[r].Errors = errors[r]
    /\ resp[r].status = 400 => (~ThreeSegmentPath(path[r]) \/ readErr[r])
    /\ resp[r].status = 500 =>
         \/ nw[r] # 0 /\ wr[r] = 0 /\ ~handles[nw[r]].connected
         \/ wr[r] # 0 /\ Unencodable(r)

(* every row of a request of two lines or more failed, one in decoding    *)
(* and one in Add, and the answer is 200                                  *)
C3_Witness ==
  \E r \in Reqs :
    /\ pc[r] = "done" /\ resp[r].status = 200
    /\ Len(lines[r]) >= 2
    /\ Len(resp[r].Errors) = Len(lines[r])
    /\ \E k \in 1..Len(errors[r]) : errors[r][k].Error = "syntax"
    /\ \E k \in 1..Len(errors[r]) : errors[r][k].Error = "rejected"

(* C4: a request whose path is not the root and is no three-segment path  *)
(* is answered 400 "invalid uri" in the step that admits it: the body is  *)
(* not read, no writer is made, resolved or cached, no row is submitted,  *)
(* and the request does nothing afterwards.                               *)
C4_InvalidPathAbandoned ==
  [][\A r \in Reqs :
       /\ (pc[r] = "new" /\ pc'[r] # "new" /\ path'[r] # <<"/">>
             /\ ~ThreeSegmentPath(path'[r])) =>
            /\ pc'[r] = "done"
            /\ resp'[r].status = 400 /\ resp'[r].error = "invalid uri"
            /\ ~bodyRead'[r] /\ body'[r] = <<>>
            /\ nw'[r] = 0 /\ wr'[r] = 0 /\ added'[r] = <<>>
            /\ writers' = writers /\ handles' = handles
       /\ pc[r] = "done" =>
            /\ pc'[r] = "done" /\ resp'[r] = resp[r] /\ bodyRead'[r] = bodyRead[r]
            /\ nw'[r] = nw[r] /\ wr'[r] = wr[r] /\ added'[r] = added[r]]_vars

(* the path /a//a, with its empty dataset, has been answered 400 *)
C4_Witness ==
  \E r \in Reqs :
    /\ pc[r] = "done"
    /\ path[r] = <<"/", "a", "/", "/", "a">>
    /\ resp[r].status = 400 /\ resp[r].error = "invalid uri"

(* the body is JSON object lines separated by newlines, no final newline *)
OnlyObjectLines(b) ==
  /\ Len(b) % 2 = 1
  /\ \A k \in 1..Len(b) : IF k % 2 = 1 THEN b[k] \in ObjectTokens ELSE b[k] = NL

AllAccepted(r) == \A k \in 1..Len(added[r]) : added[r][k].result = "ok"

EndsWithBadLine(b) ==
  /\ Len(b) >= 2 /\ Len(b) % 2 = 0
  /\ b[Len(b)] = NL /\ b[Len(b) - 1] = BAD
  /\ \A k \in 1..Len(b) - 2 : IF k % 2 = 1 THEN b[k] \in ObjectTokens ELSE b[k] = NL

BadLineIndex(b) == (Len(b) \div 2) - 1

(* C9, as claimed: such a body, the writer accepting its rows, is         *)
(* answered 200 with exactly one error entry, at the index of the         *)
(* not-json line.                                                         *)
C9_OneErrorEntry ==
  \A r \in Reqs :
    (pc[r] = "done" /\ wr[r] # 0 /\ EndsWithBadLine(body[r]) /\ AllAccepted(r)) =>
      /\ resp[r].status = 200
      /\ Len(resp[r].Errors) = 1
      /\ resp[r].Errors[1].Index = BadLineIndex(body[r])

(* C9, amended: such a body is answered 200 with exactly two error        *)
(* entries, both decode errors: the index of the not-json line and the    *)
(* next index, that of the empty line after the final newline.            *)
C9_TwoErrorEntries ==
  \A r \in Reqs :
    (pc[r] = "done" /\ wr[r] # 0 /\ EndsWithBadLine(body[r]) /\ AllAccepted(r)) =>
      /\ resp[r].status = 200
      /\ Len(resp[r].Errors) = 2
      /\ resp[r].Errors[1] = [Index |-> BadLineIndex(body[r]), Error |-> "syntax"]
      /\ resp[r].Errors[2] = [Index |-> BadLineIndex(body[r]) + 1, Error |-> "syntax"]

(* the example body has been answered 200 with error entries 2 and 3 *)
C9_Witness ==
  \E r \in Reqs :
    /\ pc[r] = "done" /\ body[r] = ExampleBody
    /\ Len(added[r]) = 2
    /\ resp[r].status = 200
    /\ Len(resp[r].Errors) = 2
    /\ resp[r].Errors[1].Index = 2 /\ resp[r].Errors[2].Index = 3

(* C10: once the timeout response has been sent to the client it stays    *)
(* the answer, and no row of the request is submitted to the writer after *)
(* it.                                                                    *)
C10_TimeoutAborts ==
  \A r \in Reqs :
    /\ \A k \in 1..Len(added[r]) : added[r][k].answered # 503
    /\ (pc[r] = "done" /\ sent[r] # 503) => sent[r] = resp[r].status

(* getBigqueryWriter of request r can go past h.mu.Lock() now *)
CanResolve(r) == ENABLED (ResolveHit(r) \/ ResolveMiss(r))

(* C11: while the Connect of one request is in progress, a request that   *)
(* is about to resolve a different cache key can do so at once: it does   *)
(* not wait for that Connect to return.                                   *)
C11_DistinctKeysIndependent ==
  \A r1, r2 \in Reqs :
    (proc = "running" /\ pc[r1] = "connect" /\ pc[r2] = "resolve"
       /\ key[r2] # key[r1]) => CanResolve(r2)

(* handler.Close has been called (it is running or has returned) *)
CloseStarted == spc \in {"close", "done"}

(* C12: once handler.Close has been called no writer is made, no Connect  *)
(* is begun or completed and nothing is inserted into the cache.          *)
C12_NoHandleAfterClose ==
  [][CloseStarted =>
       /\ Len(handles') = Len(handles)
       /\ \A h \in HandleIds : handles'[h].connected = handles[h].connected
       /\ writers' = writers]_vars

(* C14: the resolve of a cached key returns the cached writer and changes *)
(* nothing else: no writer is made, no Connect is called, the cache keeps *)
(* its keys and its writers, and the mutex is free again.                 *)
C14_HitNoSideEffects ==
  [][\A r \in Reqs :
       (pc[r] = "resolve" /\ pc'[r] # "resolve" /\ key[r] \in DOMAIN writers) =>
         /\ pc'[r] = "send"
         /\ wr'[r] = writers[key[r]]
         /\ nw'[r] = nw[r]
         /\ handles' = handles
         /\ writers' = writers
         /\ mu' = mu]_vars

(* a request has been given the writer another request had cached, and    *)
(* that writer is still the only one ever made                            *)
C14_Witness ==
  \E r \in Reqs :
    /\ pc[r] = "send" /\ nw[r] = 0
    /\ wr[r] = writers[key[r]]
    /\ Len(handles) = 1

(* whether json.Unmarshal accepts the line *)
Decodes(line) == Unmarshal(line, NilRow, 1).err = "none"

(* the entries of the error list of request r made for line index i *)
ErrorsAt(r, i) == {k \in 1..Len(errors[r]) : errors[r][k].Index = i}

(* the calls of Add of request r made for line index i *)
AddedAt(r, i) == {k \in 1..Len(added[r]) : added[r][k].Index = i}

(* C15: the lines of a request are the pieces of its body between the     *)
(* newline characters, one more than there are newlines, the last one     *)
(* empty when the body ends in a newline (or is empty).  The loop of      *)
(* sendLines has gone through the indices 0..idx-1, each once and in      *)
(* ascending order: a line that does not decode has one error entry and   *)
(* no Add, a line that decodes has one Add; when sendLines returns every   *)
(* line has been gone through.                                            *)
C15_RowsAreLines ==
  \A r \in Reqs : wr[r] # 0 =>
    /\ Len(lines[r]) = NumLines(body[r])
    /\ (body[r] = <<>> \/ body[r][Len(body[r])] = NL) => lines[r][Len(lines[r])] = <<>>
    /\ idx[r] \in 0..Len(lines[r])
    /\ SendLinesReturned(r) => idx[r] = NumLines(body[r])
    /\ \A i \in 0..idx[r] - 1 :
         IF Decodes(lines[r][i + 1])
           THEN /\ Cardinality(AddedAt(r, i)) = 1
                /\ Cardinality(ErrorsAt(r, i)) =
                     (IF AddFailed(added[r][CHOOSE k \in AddedAt(r, i) : TRUE].result)
                        THEN 1 ELSE 0)
           ELSE /\ AddedAt(r, i) = {}
                /\ Cardinality(ErrorsAt(r, i)) = 1
    /\ \A k \in 1..Len(added[r]) : added[r][k].Index < idx[r]
    /\ \A k \in 1..Len(errors[r]) : errors[r][k].Index < idx[r]
    /\ \A k \in 1..Len(added[r]) - 1 : added[r][k].Index < added[r][k + 1].Index
    /\ \A k \in 1..Len(errors[r]) - 1 : errors[r][k].Index < errors[r][k + 1].Index

(* a body of one object and a final newline has been gone through as two  *)
(* lines: the object was submitted, the empty line is a decode error      *)
C15_Witness ==
  \E r \in Reqs :
    /\ pc[r] = "done" /\ body[r] = <<OA, NL>>
    /\ lines[r] = << <<OA>>, <<>> >>
    /\ idx[r] = 2
    /\ Len(added[r]) = 1 /\ added[r][1].Index = 0
    /\ ErrorsAt(r, 1) # {}

(* the key/value pairs the text of line index i of request r denotes *)
PairsOfLine(r, i) ==
  IF Len(lines[r][i + 1]) = 1 THEN ObjectOf(lines[r][i + 1][1]) ELSE {}

(* C16: every row handed to writer.Add holds exactly the key/value pairs  *)
(* of its own line, and no two calls of Add of a request are handed the   *)
(* same map, so that decoding a later line changes no row handed over     *)
(* before.                                                                *)
C16_RowsIndependent ==
  \A r \in Reqs :
    /\ \A k \in 1..Len(added[r]) :
         added[r][k].row.kv = PairsOfLine(r, added[r][k].Index)
    /\ \A k1, k2 \in 1..Len(added[r]) :
         (k1 # k2 /\ added[r][k1].row.id # 0) =>
           added[r][k1].row.id # added[r][k2].row.id

(* the (project, dataset, table) of request r *)
Triple(r) == SubSeq(Params(path[r]), 2, 4)

(* C17: two requests whose (project, dataset, table) differ in any        *)
(* component never have the same cache key and are never given the same   *)
(* writer.                                                                *)
C17_StructuralIdentity ==
  \A r1, r2 \in Resolved :
    Triple(r1) # Triple(r2) => (key[r1] # key[r2] /\ wr[r1] # wr[r2])

(* C18: no call of writer.Add is made on a writer that handler.Close has  *)
(* closed already.                                                        *)
C18_NoAddAfterClose ==
  \A r \in Reqs : \A k \in 1..Len(added[r]) : ~added[r][k].closed

(* C19: while handler.Close ranges over h.writers no request inserts into *)
(* the map, and the runtime never ends the process for a concurrent map   *)
(* iteration and map write.                                               *)
C19_MapAccessExclusive ==
  [][/\ spc = "close" => DOMAIN writers' = DOMAIN writers
     /\ proc' # "crashed"]_vars

(* request r is inside getBigqueryWriter *)
InResolve(r) == pc[r] \in {"resolve", "connect"}

(* C20: every call of getBigqueryWriter returns, as long as the process   *)
(* runs: no request stays in front of h.mu.Lock() or inside Connect for   *)
(* ever.                                                                  *)
C20_ResolveReturns ==
  \A r \in Reqs : InResolve(r) ~> (~InResolve(r) \/ proc # "running")

(* the Connect of one request failed and another request, which found the *)
(* key uncached after it, has been given its writer; the mutex is free    *)
C20_Witness ==
  \E r1, r2 \in Reqs :
    /\ pc[r1] = "done" /\ resp[r1] = ErrorResp(500, "connect error")
    /\ nw[r2] > nw[r1] /\ wr[r2] = nw[r2]
    /\ mu = 0
    /\ proc = "running"

(* how far the signal goroutine has come *)
StageRank(st) ==
  CASE st = "wait" -> 0
    [] st = "lnclose" -> 1
    [] st = "close" -> 2
    [] st = "done" -> 3

ClosedHandles == {h \in HandleIds : handles[h].closed}

(* C13: the signal goroutine goes through its stages once and forwards    *)
(* only, however many signals arrive: the listener is closed in the one   *)
(* step that leaves the stage ln.Close(), handler.Close is entered from   *)
(* that step only and writers are closed only while it runs, done is      *)
(* closed in the one step that ends it, and none of these is undone or    *)
(* done again.                                                            *)
C13_ShutdownOnce ==
  [][/\ StageRank(spc') \in {StageRank(spc), StageRank(spc) + 1}
     /\ lnOpen' # lnOpen => (lnOpen /\ spc = "lnclose" /\ spc' = "close")
     /\ doneClosed' # doneClosed => (~doneClosed /\ spc = "close" /\ spc' = "done")
     /\ doneClosed <=> spc = "done"
     /\ ~lnOpen <=> spc \in {"close", "done"}
     /\ {h \in 1..Len(handles') : handles'[h].closed} # ClosedHandles =>
          (spc = "close" /\ spc' = "close")
     /\ ClosedHandles \subseteq {h \in 1..Len(handles') : handles'[h].closed}]_vars

(* two signals arrived before the goroutine received the first: the       *)
(* shutdown has run to its end and the second signal is left in sigCh     *)
C13_Witness ==
  /\ nsig = 2 /\ sigCh = 1
  /\ spc = "done" /\ ~lnOpen /\ doneClosed
  /\ ClosedHandles # {}
  /\ proc = "running"

====
